---- MODULE Spec2Model ----
(***************************************************************************)
(* The mixed_dtype higher-order operator of                                *)
(* functorch/experimental/mixed_dtype.py: its six registered handlers, the *)
(* dispatch that selects among them, and the process-wide dispatch context *)
(* (excluded keys, mode stack, functorch interpreter stack) they toggle.   *)
(* One behaviour is one top-level call mixed_dtype(op, out_dtype, *args).  *)
(***************************************************************************)
EXTENDS Integers, Sequences, FiniteSets

VARIABLES
    op,         \* the wrapped operation reference of the call
    out_dtype,  \* the target precision of the call
    args0,      \* the argument tuple the caller passed
    backend,    \* device of the tensors: decides which Autograd<Backend> key they carry
    tlsFunc,    \* Functionalize is in the thread-local included key set (legacy convention)
    env0,       \* the dispatch context before the call
    excluded,   \* thread-local excluded dispatch keys
    modes,      \* torch-dispatch mode stack, top last
    interp,     \* functorch interpreter stack (levels), top last
    graph,      \* graph[i]: nodes recorded by the tracer of the mode with id i
    stack,      \* handlers active on the call chain, innermost last
    status,     \* "call": a (re-)invocation is being dispatched; "ret"; "exc"
    cur,        \* the argument tuple of the invocation being dispatched
    val,        \* the value being returned
    exc,        \* the exception being propagated ("" when none)
    leaked,     \* keys excluded by guards of frames the traceback keeps alive
    log         \* what the handlers did, in order

vars == <<op, out_dtype, args0, backend, tlsFunc, env0, excluded, modes, interp,
          graph, stack, status, cur, val, exc, leaked, log>>

(***************************************************************************)
(* Bounds of the model.                                                    *)
(***************************************************************************)
\* Containers nest at most this deep inside the argument tuple.
MaxNest == 2
\* The functorch interpreter stack holds at most this many functionalize levels.
MaxInterp == 2
\* Python's recursion limit, scaled down: a call chain this deep raises RecursionError.
MaxRecursion == 6

(***************************************************************************)
(* Values: pytrees.  A leaf is a tensor (k = "T"), a functionalized        *)
(* wrapper around a tensor (k = "F") or a non-tensor (k = "V"); a          *)
(* container (k = "L") holds a sequence of trees.  An argument tuple is a  *)
(* sequence of trees.                                                      *)
(***************************************************************************)
DTypes == {"f32", "f16"}

Tensor(dt, rg) == [k |-> "T", dt |-> dt, rg |-> rg]
Functional(level, inner) == [k |-> "F", level |-> level, inner |-> inner]
NonTensor == [k |-> "V", v |-> "scalar"]
Container(items) == [k |-> "L", items |-> items]
NoValue == [k |-> "None"]

\* isinstance(x, torch.Tensor): a functionalized wrapper is a tensor too
IsTensor(x) == x.k \in {"T", "F"}

RECURSIVE DtypeOf(_)
DtypeOf(t) == IF t.k = "F" THEN DtypeOf(t.inner) ELSE t.dt

RECURSIVE RequiresGrad(_)
RequiresGrad(t) == IF t.k = "F" THEN RequiresGrad(t.inner) ELSE t.rg

RECURSIVE SeqConcat(_)
SeqConcat(ss) == IF ss = <<>> THEN <<>> ELSE Head(ss) \o SeqConcat(Tail(ss))

\* pytree.tree_flatten: the leaves of a tree, left to right
RECURSIVE tree_flatten(_)
tree_flatten(x) ==
    IF x.k = "L"
    THEN SeqConcat([i \in 1..Len(x.items) |-> tree_flatten(x.items[i])])
    ELSE <<x>>

\* the leaves of an argument tuple
FlatArgs(a) == SeqConcat([i \in 1..Len(a) |-> tree_flatten(a[i])])

\* arg.to(dtype=dt): a tensor of precision dt; the tensor itself when it already has it
RECURSIVE To(_, _)
To(t, dt) ==
    IF t.k = "F" THEN Functional(t.level, To(t.inner, dt))
    ELSE IF t.dt = dt THEN t ELSE Tensor(dt, t.rg)

(***************************************************************************)
(* The wrapped operation.  Its result is a tensor whose precision either   *)
(* follows its first tensor input (add, mm, ...) or is fixed by the        *)
(* operation (a comparison returns bool); an operation may also raise.     *)
(* A reference is an OpOverload (aten.add.Tensor) or some other callable   *)
(* (the packet aten.add).                                                  *)
(***************************************************************************)
Ops == { [name |-> "aten.add.Tensor", overload |-> TRUE,  result |-> "same"],
         [name |-> "aten.eq.Tensor",  overload |-> TRUE,  result |-> "bool"],
         [name |-> "aten.fails",      overload |-> TRUE,  result |-> "raise"],
         [name |-> "aten.add",        overload |-> FALSE, result |-> "same"] }

TensorLeaves(a) == { i \in 1..Len(FlatArgs(a)) : IsTensor(FlatArgs(a)[i]) }

FirstTensor(a) == FlatArgs(a)[CHOOSE i \in TensorLeaves(a) : \A j \in TensorLeaves(a) : i <= j]

OpRaises(o) == o.result = "raise"

\* op(*a)
OpResult(o, a) ==
    IF o.result = "same" /\ TensorLeaves(a) # {}
    THEN Tensor(DtypeOf(FirstTensor(a)), FALSE)
    ELSE Tensor("bool", FALSE)

(***************************************************************************)
(* Pieces of the handlers.                                                 *)
(***************************************************************************)
\* isinstance(op, torch._ops.OpOverload)
IsOpOverload(o) == o.overload

\* pytree.tree_map_only(torch.Tensor, lambda arg: arg.to(dtype=out_dtype), tree)
RECURSIVE CastTree(_, _)
CastTree(x, dt) ==
    IF x.k = "L" THEN Container([i \in 1..Len(x.items) |-> CastTree(x.items[i], dt)])
    ELSE IF IsTensor(x) THEN To(x, dt)
    ELSE x

\* a faulty variant of casted_args: only the leaves directly in the tuple are cast
casted_args_shallow(a, dt) ==
    [i \in 1..Len(a) |-> IF IsTensor(a[i]) THEN To(a[i], dt) ELSE a[i]]

casted_args(a, dt) == [i \in 1..Len(a) |-> CastTree(a[i], dt)]

\* a faulty variant of NoGradOperands: the check without the tree_flatten
NoGradOperands_unflattened(a) ==
    \A i \in 1..Len(a) : IsTensor(a[i]) => ~RequiresGrad(a[i])

\* all([not f.requires_grad for f in flat_operands if isinstance(f, torch.Tensor)])
NoGradOperands(a) ==
    \A i \in 1..Len(FlatArgs(a)) :
        IsTensor(FlatArgs(a)[i]) => ~RequiresGrad(FlatArgs(a)[i])

\* the key set handed to ExcludeDispatchKeyGuard by the autograd handler
AutogradGuardKeys == {"AutogradCPU"}

\* the key set handed to ExcludeDispatchKeyGuard by the legacy functionalize handler
FunctionalizeGuardKeys == {"Functionalize"}

\* _maybe_unwrap_functional_tensor over a tree: one layer of wrapping comes off
RECURSIVE UnwrapTree(_)
UnwrapTree(x) ==
    IF x.k = "L" THEN Container([i \in 1..Len(x.items) |-> UnwrapTree(x.items[i])])
    ELSE IF x.k = "F" THEN x.inner
    ELSE x

\* tuple(_unwrap_all_tensors_from_functional(arg, ...) for arg in args)
unwrapped_args(a) == [i \in 1..Len(a) |-> UnwrapTree(a[i])]

\* _wrap_all_tensors_to_functional(res, level)
RECURSIVE WrapTree(_, _)
WrapTree(x, level) ==
    IF x.k = "L" THEN Container([i \in 1..Len(x.items) |-> WrapTree(x.items[i], level)])
    ELSE IF IsTensor(x) THEN Functional(level, x)
    ELSE x

\* the level the legacy handler re-wraps at
LegacyWrapLevel == 0

\* a faulty variant of InterpWrapLevel: the legacy handler's constant
InterpWrapLevel_const(level) == LegacyWrapLevel

\* the level the interpreter handler re-wraps at: interpreter.level()
InterpWrapLevel(level) == level

\* unwrap_proxy(proxy_mode, e) over a tree: a tensor becomes the proxy the tracer
\* tracks it by, anything else stays
RECURSIVE ProxyTree(_)
ProxyTree(x) ==
    IF x.k = "L" THEN Container([i \in 1..Len(x.items) |-> ProxyTree(x.items[i])])
    ELSE IF IsTensor(x) THEN [k |-> "P", of |-> x]
    ELSE x

\* a faulty variant of node_args: the node is built from the casted arguments
node_args_casted(o, dt, a) == [op |-> o, out_dtype |-> dt, args |-> casted_args(a, dt)]

\* node_args = (op, out_dtype, *args)
node_args(o, dt, a) == [op |-> o, out_dtype |-> dt, args |-> a]

\* pytree.tree_map(partial(unwrap_proxy, proxy_mode), node_args)
proxy_args(n) == [op |-> n.op, out_dtype |-> n.out_dtype,
                  args |-> [i \in 1..Len(n.args) |-> ProxyTree(n.args[i])]]

\* proxy_mode.tracer.create_proxy("call_function", func_overload, proxy_args, {}, name="mixed_dtype")
create_proxy(pa) == [name |-> "mixed_dtype", op |-> pa.op, out_dtype |-> pa.out_dtype,
                     args |-> pa.args]

\* the node a tracing proxy mode records for an ordinary torch operation it sees
InnerNode(what) == [name |-> what, op |-> NoValue, out_dtype |-> "", args |-> <<>>]

(***************************************************************************)
(* The dispatch context and the dispatcher of HigherOrderOperator.         *)
(***************************************************************************)
Mode(kind, tracing, id) == [k |-> kind, enable_tracing |-> tracing, id |-> id]

Top(s) == s[Len(s)]
Pop(s) == SubSeq(s, 1, Len(s) - 1)

\* the Autograd<Backend> key the tensors of the call carry
AutogradKey == IF backend = "CPU" THEN "AutogradCPU" ELSE "AutogradCUDA"

\* _compute_keyset: the keys of the tensor arguments and the thread-local included
\* keys, without the thread-local excluded keys
KeySet(a) ==
    ( (IF interp # <<>> THEN {"FuncTorchDynamicLayerFrontMode"} ELSE {})
      \cup (IF TensorLeaves(a) # {} THEN {AutogradKey, backend} ELSE {})
      \cup (IF tlsFunc \/ \E i \in TensorLeaves(a) : FlatArgs(a)[i].k = "F"
            THEN {"Functionalize"} ELSE {})
      \cup (IF modes # <<>> THEN {"Python"} ELSE {}) )
    \ excluded

\* HigherOrderOperator.dispatch on the highest-priority key of the key set
Handler(a) ==
    LET ks == KeySet(a) IN
    IF "FuncTorchDynamicLayerFrontMode" \in ks THEN "func_interp"
    ELSE IF ks \cap {"AutogradCPU", "AutogradCUDA"} # {} THEN "autograd"
    ELSE IF "Functionalize" \in ks THEN "func"
    ELSE IF "Python" \in ks THEN (IF Top(modes).k = "Proxy" THEN "proxy" ELSE "fake")
    ELSE "dense"

\* the modes that record a graph node for an ordinary torch operation run under the
\* mode stack ms: a fake mode handles the operation itself, a proxy mode records it
\* when it is tracing and hands it on to the modes below
RECURSIVE Recorders(_)
Recorders(ms) ==
    IF ms = <<>> \/ Top(ms).k = "Fake" THEN {}
    ELSE (IF Top(ms).enable_tracing THEN {Top(ms).id} ELSE {}) \cup Recorders(Pop(ms))

\* disable_proxy_modes_tracing(): every proxy mode on the stack stops tracing
disable_proxy_modes_tracing(ms) ==
    [i \in 1..Len(ms) |-> Mode(ms[i].k, FALSE, ms[i].id)]

\* a faulty variant of trace_modes: the casts and the operation run with tracing left on
trace_modes_enabled(ms) == ms

\* the mode stack the body of "with disable_proxy_modes_tracing():" runs under
trace_modes(ms) == disable_proxy_modes_tracing(ms)

\* the nodes the casts and the wrapped operation are recorded as, by a mode that records
InnerNodes(o, dt, a) ==
    LET n == Cardinality({ i \in TensorLeaves(a) : DtypeOf(FlatArgs(a)[i]) # dt })
    IN  [i \in 1..n |-> InnerNode("aten._to_copy")] \o <<InnerNode(o.name)>>

Record(g, who, nodes) == [i \in DOMAIN g |-> IF i \in who THEN g[i] \o nodes ELSE g[i]]

Event(e, h, a) == [e |-> e, h |-> h, a |-> a]

Frame(h, guard, mode, level) == [h |-> h, guard |-> guard, mode |-> mode, level |-> level]

(***************************************************************************)
(* The calls the model makes: operation, precision, arguments, context.    *)
(***************************************************************************)
Leaves == {Tensor("f32", FALSE), Tensor("f32", TRUE), Tensor("f16", FALSE), NonTensor}

RECURSIVE Trees(_)
Trees(d) == IF d = 0 THEN Leaves
            ELSE Trees(d - 1) \cup { Container(<<t>>) : t \in Trees(d - 1) }

ArgTuples ==
    { a \in { <<t>> : t \in Trees(MaxNest) }
            \cup { <<l, NonTensor>> : l \in Leaves }
            \cup { <<Container(<<l, m>>)>> : l \in Leaves, m \in {NonTensor, Tensor("f32", TRUE)} } :
      TensorLeaves(a) # {} }

ModeKinds == { <<"Fake", FALSE>>, <<"Proxy", TRUE>>, <<"Proxy", FALSE>> }

ModeStacks ==
    {<<>>} \cup { <<Mode(m[1], m[2], 1)>> : m \in ModeKinds }
           \cup { <<Mode(m[1], m[2], 1), Mode(n[1], n[2], 2)>> : m \in ModeKinds, n \in ModeKinds }

\* the levels functionalized wrappers carry under the legacy convention: -1 from
\* torch._to_functional_tensor, 0 from the output of an earlier higher-order operator
LegacyLevels == {-1, 0}

\* the functionalization in effect: none, the legacy convention with wrappers of one
\* level, or a functorch interpreter stack of levels 1..n
FuncConfigs ==
    {[conv |-> "none", n |-> 0]}
    \cup { [conv |-> "legacy", n |-> l] : l \in LegacyLevels }
    \cup { [conv |-> "interp", n |-> n] : n \in 1..MaxInterp }

\* the argument tuple as the functionalization hands it over: every tensor wrapped once
\* per level
RECURSIVE WrapLevels(_, _, _)
WrapLevels(a, lo, hi) ==
    IF lo > hi THEN a
    ELSE WrapLevels([i \in 1..Len(a) |-> WrapTree(a[i], lo)], lo + 1, hi)

WrapFor(f, a) ==
    IF f.conv = "none" THEN a
    ELSE IF f.conv = "legacy" THEN [i \in 1..Len(a) |-> WrapTree(a[i], f.n)]
    ELSE WrapLevels(a, 1, f.n)

Init ==
    /\ op \in Ops
    /\ out_dtype \in DTypes
    /\ backend \in {"CPU", "CUDA"}
    /\ modes \in ModeStacks
    /\ excluded \in { {}, {"AutogradCPU", "AutogradCUDA"} }
    /\ \E f \in FuncConfigs, a \in ArgTuples :
         /\ args0 = WrapFor(f, a)
         /\ tlsFunc = (f.conv = "legacy")
         /\ interp = IF f.conv = "interp" THEN [i \in 1..f.n |-> i] ELSE <<>>
    /\ env0 = [excluded |-> excluded, modes |-> modes, interp |-> interp]
    /\ graph = [i \in 1..Len(modes) |-> <<>>]
    /\ stack = <<>>
    /\ status = "call"
    /\ cur = args0
    /\ val = NoValue
    /\ exc = ""
    /\ leaked = {}
    /\ log = <<>>

(***************************************************************************)
(* The handlers.  A handler that re-invokes the operator pushes a frame    *)
(* and leaves the invocation to be dispatched again; its remainder runs    *)
(* when the invocation returns or raises.                                  *)
(***************************************************************************)
Inputs == <<op, out_dtype, args0, backend, tlsFunc, env0>>

Dispatching(h) ==
    /\ status = "call"
    /\ Len(stack) < MaxRecursion
    /\ Handler(cur) = h

\* what mixed_dtype_dense(o, dt, a) does: the arguments it hands to the operation and
\* the value it returns when the operation returns
DenseCall(o, dt, a) ==
    LET casted == casted_args(a, dt)
    IN  [casted |-> casted, res |-> OpResult(o, casted)]

\* the body of mixed_dtype_dense, entered through handler h
Dense(h) ==
    LET d == DenseCall(op, out_dtype, cur) IN
    /\ log' = log \o <<Event("enter", h, cur), Event("cast", h, d.casted),
                       Event("call_op", h, d.casted)>>
    /\ graph' = Record(graph, Recorders(modes), InnerNodes(op, out_dtype, cur))
    /\ IF OpRaises(op)
       THEN status' = "exc" /\ exc' = "OpError" /\ val' = NoValue
       ELSE status' = "ret" /\ exc' = "" /\ val' = d.res
    /\ UNCHANGED <<Inputs, excluded, modes, interp, stack, cur, leaked>>

\* @mixed_dtype.py_impl(DispatchKey.CompositeExplicitAutograd)
mixed_dtype_dense ==
    /\ Dispatching("dense")
    /\ Dense("dense")

\* @mixed_dtype.py_impl(FakeTensorMode)
mixed_dtype_fake_tensor_mode ==
    /\ Dispatching("fake")
    /\ Dense("fake")

\* @mixed_dtype.py_impl(DispatchKey.Autograd)
mixed_dtype_autograd ==
    /\ Dispatching("autograd")
    /\ IF ~NoGradOperands(cur)
       THEN /\ status' = "exc"
            /\ exc' = "AssertionError"
            /\ log' = log \o <<Event("enter", "autograd", cur)>>
            /\ UNCHANGED <<excluded, stack>>
       ELSE /\ excluded' = excluded \cup AutogradGuardKeys
            /\ stack' = Append(stack, Frame("autograd", AutogradGuardKeys \ excluded, <<>>, 0))
            /\ log' = log \o <<Event("enter", "autograd", cur),
                               Event("exclude", "autograd", <<>>),
                               Event("reinvoke", "autograd", cur)>>
            /\ UNCHANGED <<status, exc>>
    /\ UNCHANGED <<Inputs, modes, interp, graph, cur, val, leaked>>

\* the handler returns: its frame goes away and with it the guard bound to "_"
autograd_return ==
    /\ status = "ret"
    /\ stack # <<>> /\ Top(stack).h = "autograd"
    /\ excluded' = excluded \ Top(stack).guard
    /\ stack' = Pop(stack)
    /\ UNCHANGED <<Inputs, modes, interp, graph, status, cur, val, exc, leaked, log>>

\* an exception passes through the handler: nothing releases the guard, and the
\* traceback of the exception keeps the frame, and the guard in it, alive
autograd_unwind ==
    /\ status = "exc"
    /\ stack # <<>> /\ Top(stack).h = "autograd"
    /\ leaked' = leaked \cup Top(stack).guard
    /\ stack' = Pop(stack)
    /\ UNCHANGED <<Inputs, excluded, modes, interp, graph, status, cur, val, exc, log>>

\* the caller drops the exception: the frames of its traceback are freed
release_traceback ==
    /\ status = "exc"
    /\ stack = <<>>
    /\ status' = "dropped"
    /\ excluded' = excluded \ leaked
    /\ leaked' = {}
    /\ UNCHANGED <<Inputs, modes, interp, graph, stack, cur, val, exc, log>>

\* what trace_mixed_dtype does once the reference has passed the check, run under the
\* mode stack rest
TraceBody(mode, o, dt, a, rest) ==
    LET casted == casted_args(a, dt)
        under  == trace_modes(rest)
    IN  [exc    |-> IF OpRaises(o) THEN "OpError" ELSE "",
         val    |-> IF OpRaises(o) THEN NoValue ELSE OpResult(o, casted),
         did    |-> <<Event("cast", "trace", casted), Event("call_op", "trace", casted)>>
                    \o (IF OpRaises(o) THEN <<>> ELSE <<Event("node", "trace", a)>>),
         who    |-> Recorders(under),
         inner  |-> InnerNodes(o, dt, a),
         nodes  |-> IF OpRaises(o) THEN <<>>
                    ELSE <<create_proxy(proxy_args(node_args(o, dt, a)))>>]

\* a faulty variant of trace_mixed_dtype: the isinstance check is missing
trace_mixed_dtype_unchecked(mode, o, dt, a, rest) == TraceBody(mode, o, dt, a, rest)

\* trace_mixed_dtype(proxy_mode, func_overload, op, out_dtype, *args)
trace_mixed_dtype(mode, o, dt, a, rest) ==
    IF ~IsOpOverload(o)
    THEN [exc |-> "ValueError", val |-> NoValue, did |-> <<>>, who |-> {},
          inner |-> <<>>, nodes |-> <<>>]
    ELSE TraceBody(mode, o, dt, a, rest)

\* @mixed_dtype.py_impl(ProxyTorchDispatchMode)
mixed_dtype_proxy ==
    /\ Dispatching("proxy")
    /\ LET mode == Top(modes)
           rest == Pop(modes)
       IN  IF mode.enable_tracing
           THEN LET t == trace_mixed_dtype(mode, op, out_dtype, cur, rest) IN
                /\ log' = log \o <<Event("enter", "proxy", cur), Event("enter", "trace", cur)>>
                              \o t.did
                /\ graph' = Record(Record(graph, t.who, t.inner), {mode.id}, t.nodes)
                /\ status' = IF t.exc = "" THEN "ret" ELSE "exc"
                /\ exc' = t.exc
                /\ val' = t.val
                /\ UNCHANGED <<modes, stack>>
           ELSE /\ modes' = rest
                /\ stack' = Append(stack, Frame("proxy", {}, <<mode>>, 0))
                /\ log' = log \o <<Event("enter", "proxy", cur), Event("reinvoke", "proxy", cur)>>
                /\ UNCHANGED <<graph, status, exc, val>>
    /\ UNCHANGED <<Inputs, excluded, interp, cur, leaked>>

\* leaving "with _pop_mode_temporarily() as mode", by return or by exception
proxy_exit ==
    /\ status \in {"ret", "exc"}
    /\ stack # <<>> /\ Top(stack).h = "proxy"
    /\ modes' = modes \o Top(stack).mode
    /\ stack' = Pop(stack)
    /\ UNCHANGED <<Inputs, excluded, interp, graph, status, cur, val, exc, leaked, log>>

\* @mixed_dtype.py_impl(torch._C.DispatchKey.Functionalize)
mixed_dtype_func ==
    /\ Dispatching("func")
    /\ cur' = unwrapped_args(cur)
    /\ excluded' = excluded \cup FunctionalizeGuardKeys
    /\ stack' = Append(stack, Frame("func", FunctionalizeGuardKeys \ excluded, <<>>,
                                    LegacyWrapLevel))
    /\ log' = log \o <<Event("enter", "func", cur), Event("exclude", "func", <<>>),
                       Event("reinvoke", "func", unwrapped_args(cur))>>
    /\ UNCHANGED <<Inputs, modes, interp, graph, status, val, exc, leaked>>

\* the rest of the try block and its finally: re-wrap the result, delete the guard
func_finally ==
    /\ status \in {"ret", "exc"}
    /\ stack # <<>> /\ Top(stack).h = "func"
    /\ val' = IF status = "ret" THEN WrapTree(val, Top(stack).level) ELSE val
    /\ excluded' = excluded \ Top(stack).guard
    /\ stack' = Pop(stack)
    /\ UNCHANGED <<Inputs, modes, interp, graph, status, cur, exc, leaked, log>>

\* @mixed_dtype.py_impl(torch._C._functorch.TransformType.Functionalize)
mixed_dtype_func_interp ==
    /\ Dispatching("func_interp")
    /\ cur' = unwrapped_args(cur)
    /\ interp' = Pop(interp)
    /\ stack' = Append(stack, Frame("func_interp", {}, <<>>, InterpWrapLevel(Top(interp))))
    /\ log' = log \o <<Event("enter", "func_interp", cur),
                       Event("reinvoke", "func_interp", unwrapped_args(cur))>>
    /\ UNCHANGED <<Inputs, excluded, modes, graph, status, val, exc, leaked>>

\* leaving "with interpreter.lower()", by return (after the re-wrap) or by exception
interp_exit ==
    /\ status \in {"ret", "exc"}
    /\ stack # <<>> /\ Top(stack).h = "func_interp"
    /\ val' = IF status = "ret" THEN WrapTree(val, Top(stack).level) ELSE val
    /\ interp' = Append(interp, Len(interp) + 1)
    /\ stack' = Pop(stack)
    /\ UNCHANGED <<Inputs, excluded, modes, graph, status, cur, exc, leaked, log>>

\* the call chain has reached the interpreter's recursion limit
recursion_error ==
    /\ status = "call"
    /\ Len(stack) >= MaxRecursion
    /\ status' = "exc"
    /\ exc' = "RecursionError"
    /\ UNCHANGED <<Inputs, excluded, modes, interp, graph, stack, cur, val, leaked, log>>

Next ==
    \/ mixed_dtype_dense
    \/ mixed_dtype_fake_tensor_mode
    \/ mixed_dtype_autograd
    \/ autograd_return
    \/ autograd_unwind
    \/ release_traceback
    \/ mixed_dtype_proxy
    \/ proxy_exit
    \/ mixed_dtype_func
    \/ func_finally
    \/ mixed_dtype_func_interp
    \/ interp_exit
    \/ recursion_error

Spec == Init /\ [][Next]_vars

(***************************************************************************)
(* Vocabulary of the properties.                                           *)
(***************************************************************************)
\* the top-level call has come back to its caller
Returned == status = "ret" /\ stack = <<>>
Failed == status = "exc" /\ stack = <<>>
Completed == Returned \/ Failed

Events(e) == { i \in DOMAIN log : log[i].e = e }
Entered(h) == \E i \in Events("enter") : log[i].h = h
OpCalls == Cardinality(Events("call_op"))

\* y is x with every tensor leaf brought to precision dt and nothing else changed
RECURSIVE IsCastOf(_, _, _)
IsCastOf(x, y, dt) ==
    IF x.k = "L"
    THEN /\ y.k = "L"
         /\ Len(y.items) = Len(x.items)
         /\ \A i \in 1..Len(x.items) : IsCastOf(x.items[i], y.items[i], dt)
    ELSE IF x.k = "F"
    THEN y.k = "F" /\ y.level = x.level /\ IsCastOf(x.inner, y.inner, dt)
    ELSE IF x.k = "T"
    THEN y.k = "T" /\ y.dt = dt /\ y.rg = x.rg
    ELSE y = x

ArgsCastOf(a, c, dt) ==
    Len(c) = Len(a) /\ \A i \in 1..Len(a) : IsCastOf(a[i], c[i], dt)

\* the tensors a graph node's proxies stand for
RECURSIVE Deref(_)
Deref(x) ==
    IF x.k = "L" THEN Container([i \in 1..Len(x.items) |-> Deref(x.items[i])])
    ELSE IF x.k = "P" THEN x.of
    ELSE x

\* a tree without its functionalized wrappers
RECURSIVE Strip(_)
Strip(x) ==
    IF x.k = "L" THEN Container([i \in 1..Len(x.items) |-> Strip(x.items[i])])
    ELSE IF x.k = "F" THEN Strip(x.inner)
    ELSE x

StripArgs(a) == [i \in 1..Len(a) |-> Strip(a[i])]

\* some tensor leaf of the tree, at whatever depth, requires grad
RECURSIVE GradLeaf(_)
GradLeaf(x) ==
    IF x.k = "L" THEN \E i \in 1..Len(x.items) : GradLeaf(x.items[i])
    ELSE IF x.k = "F" THEN GradLeaf(x.inner)
    ELSE x.k = "T" /\ x.rg

AnyGrad(a) == \E i \in 1..Len(a) : GradLeaf(a[i])

\* no leaf directly in the tuple requires grad
NoTopLevelGrad(a) == \A i \in 1..Len(a) : a[i].k = "L" \/ ~GradLeaf(a[i])

\* some tensor leaf sits inside a container and has to change precision
RECURSIVE NeedsCast(_, _)
NeedsCast(x, dt) ==
    IF x.k = "L" THEN \E i \in 1..Len(x.items) : NeedsCast(x.items[i], dt)
    ELSE IsTensor(x) /\ DtypeOf(x) # dt

NestedCast(a, dt) == \E i \in 1..Len(a) : a[i].k = "L" /\ NeedsCast(a[i], dt)

AllNodes == { n \in UNION { { graph[g][i] : i \in DOMAIN graph[g] } : g \in DOMAIN graph } : TRUE }

\* direct eager invocation on the real tensors underneath the caller's arguments
EagerResult == OpResult(op, casted_args(StripArgs(args0), out_dtype))

UnderCapture == env0.modes # <<>> /\ Top(env0.modes).k = "Proxy"

(***************************************************************************)
(* C1.  A call whose operation reference is not an OpOverload fails with a *)
(* ValueError before anything is dispatched: in no execution mode is an    *)
(* argument cast or the reference invoked.                                 *)
(***************************************************************************)
C1_InvalidOpRejectedEverywhere ==
    ~IsOpOverload(op) =>
        /\ Events("cast") = {}
        /\ Events("call_op") = {}
        /\ (Completed /\ ~AnyGrad(args0)) => exc = "ValueError"

(***************************************************************************)
(* C2.  When the autograd handler is entered with a tensor leaf, at any    *)
(* depth, that requires grad, the call fails with an AssertionError and    *)
(* the handler does nothing else: no key is excluded, the operator is not  *)
(* re-invoked and the wrapped operation is never called.                   *)
(***************************************************************************)
C2_GradInputAsserts ==
    \A i \in Events("enter") :
        (log[i].h = "autograd" /\ AnyGrad(log[i].a)) =>
            /\ i = Len(log)
            /\ status \in {"exc", "dropped"}
            /\ exc = "AssertionError"
            /\ excluded = env0.excluded
            /\ leaked = {}
            /\ \A j \in DOMAIN stack : stack[j].h # "autograd"
            /\ OpCalls = 0

\* the autograd handler has met a gradient-requiring tensor that sits inside a container
C2_Witness ==
    \E i \in Events("enter") :
        /\ log[i].h = "autograd"
        /\ AnyGrad(log[i].a)
        /\ NoTopLevelGrad(log[i].a)
        /\ exc = "AssertionError"

(***************************************************************************)
(* C3.  When the trace handler records a call, the graph node holds the    *)
(* operation reference, the precision and the arguments as the handler     *)
(* received them (uncasted), the value returned is the operation's result  *)
(* on the arguments cast to the target precision, and the handler's        *)
(* argument tuple is left as it was.                                       *)
(***************************************************************************)
C3_NodeKeepsOriginalArgs ==
    [][ (mixed_dtype_proxy /\ Top(modes).enable_tracing /\ status' = "ret") =>
          LET g == Top(modes).id
              n == graph'[g][Len(graph'[g])]
              c == log'[Len(log') - 1].a
          IN  /\ Len(graph'[g]) = Len(graph[g]) + 1
              /\ n.op = op
              /\ n.out_dtype = out_dtype
              /\ [i \in 1..Len(n.args) |-> Deref(n.args[i])] = cur
              /\ log'[Len(log') - 1].e = "call_op"
              /\ ArgsCastOf(cur, c, out_dtype)
              /\ val' = OpResult(op, c)
              /\ cur' = cur
              /\ cur = StripArgs(args0) ]_vars

\* a call has been recorded whose arguments had to change precision
C3_Witness ==
    /\ status = "ret"
    /\ \E i \in Events("node") : \E j \in 1..Len(log[i].a) : NeedsCast(log[i].a[j], out_dtype)
    /\ AllNodes # {}

(***************************************************************************)
(* C4.  In every execution mode, a call with no gradient-requiring tensor  *)
(* returns a result whose tensors all have the target precision.           *)
(***************************************************************************)
C4_ResultHasTargetPrecision ==
    (Returned /\ ~AnyGrad(args0)) =>
        \A i \in 1..Len(tree_flatten(val)) :
            IsTensor(tree_flatten(val)[i]) => DtypeOf(tree_flatten(val)[i]) = out_dtype

(***************************************************************************)
(* C5.  A call that enters through a functionalization handler returns     *)
(* the result of direct eager invocation on the real tensors underneath,   *)
(* re-wrapped at the level the handler was entered at: the interpreter's   *)
(* level under the interpreter convention, the level of the incoming       *)
(* wrappers under the legacy convention.                                   *)
(***************************************************************************)
C5_RewrappedAtEntryLevel ==
    (Returned /\ (tlsFunc \/ env0.interp # <<>>)) =>
        /\ Strip(val) = EagerResult
        /\ val.k = "F"
        /\ val.level = IF tlsFunc THEN FirstTensor(args0).level ELSE Top(env0.interp)

(***************************************************************************)
(* C5, amended.  As above, but under the legacy convention the result is   *)
(* re-wrapped at level 0 whatever the level of the incoming wrappers;      *)
(* under the interpreter convention every interpreter on the stack         *)
(* re-wraps at its own level.                                              *)
(***************************************************************************)
C5_RewrappedAtHandlerLevel ==
    (Returned /\ (tlsFunc \/ env0.interp # <<>>)) =>
        /\ Strip(val) = EagerResult
        /\ val.k = "F"
        /\ val.level = IF tlsFunc THEN 0 ELSE Top(env0.interp)
        /\ ~tlsFunc => val = WrapLevels(<<EagerResult>>, 1, Len(env0.interp))[1]

\* a call under a functorch interpreter has returned its re-wrapped result
C5_Witness ==
    /\ Returned
    /\ env0.interp # <<>>
    /\ val.k = "F"
    /\ Entered("func_interp")

(***************************************************************************)
(* C6.  The dense handler, and the fake-tensor handler that delegates to   *)
(* it, invoke the wrapped operation exactly once, on arguments of the same *)
(* container shape in which every tensor leaf has the target precision and *)
(* every other leaf is unchanged, and return the operation's result as is. *)
(***************************************************************************)
C6_DenseCastsAndInvokesOnce ==
    [][ (mixed_dtype_dense \/ mixed_dtype_fake_tensor_mode) =>
          LET c == log'[Len(log')].a
          IN  /\ Len(log') = Len(log) + 3
              /\ log'[Len(log')].e = "call_op"
              /\ { i \in DOMAIN log' : log'[i].e = "call_op" /\ i > Len(log) } = {Len(log')}
              /\ ArgsCastOf(cur, c, out_dtype)
              /\ status' = "ret" => val' = OpResult(op, c) ]_vars

\* the dense handler has run on a tuple with a tensor inside a container that had to
\* change precision
C6_Witness ==
    /\ Entered("dense")
    /\ \E i \in Events("enter") : log[i].h = "dense" /\ NestedCast(log[i].a, out_dtype)
    /\ status = "ret"

(***************************************************************************)
(* C7.  When the top-level call has come back, by return or by exception,  *)
(* the dispatch context is what it was before the call: same excluded      *)
(* keys, same mode stack, same interpreter stack.                          *)
(***************************************************************************)
C7_ContextRestored ==
    Completed =>
        /\ excluded = env0.excluded
        /\ modes = env0.modes
        /\ interp = env0.interp

C9_OneNodePerCall ==
    /\ \A n \in AllNodes : n.name = "mixed_dtype"
    /\ \A g \in DOMAIN graph : Len(graph[g]) <= 1
    /\ (Returned /\ UnderCapture) =>
          /\ OpCalls = 1
          /\ Len(graph[Top(env0.modes).id]) = IF Top(env0.modes).enable_tracing THEN 1 ELSE 0

\* a traced call under two stacked capture modes has returned, with casts to do
C9_Witness ==
    /\ Returned
    /\ UnderCapture
    /\ Top(env0.modes).enable_tracing
    /\ Len(env0.modes) > 1
    /\ env0.modes[1].k = "Proxy" /\ env0.modes[1].enable_tracing
    /\ \E j \in 1..Len(StripArgs(args0)) : NeedsCast(StripArgs(args0)[j], out_dtype)
    /\ Len(graph[Top(env0.modes).id]) = 1

(***************************************************************************)
(* C10.  When the trace handler runs and the operation reference is not an *)
(* OpOverload, the call fails with a ValueError and nothing has been cast, *)
(* invoked or recorded: every graph is as it was.                          *)
(***************************************************************************)
C10_TraceRejectsInvalidOp ==
    (Entered("trace") /\ ~IsOpOverload(op)) =>
        /\ status \in {"exc", "dropped"}
        /\ exc = "ValueError"
        /\ Events("cast") = {}
        /\ Events("call_op") = {}
        /\ Events("node") = {}
        /\ \A g \in DOMAIN graph : graph[g] = <<>>

\* the trace handler has been handed a reference that is not an OpOverload
C10_Witness ==
    /\ Entered("trace")
    /\ ~IsOpOverload(op)
    /\ exc = "ValueError"
====
